---- MODULE Spec2Model ----
(***************************************************************************)
(* dsigm: Core (a Gaussian component), CoreCluster (a grouping of Cores)   *)
(* and the utilities format_array / create_random_state.                   *)
(*                                                                         *)
(* Python values are records carrying a `type` field (the name of the      *)
(* value's Python type).  Array-like values also carry `shape`, the tuple  *)
(* numpy reports for them; collections of references carry `elts`.         *)
(* An exception is a record [type, msg]; NoExc stands for a normal return. *)
(***************************************************************************)
EXTENDS Integers, Sequences, FiniteSets

(* core    : the Core instance last worked on (NoneVal before any)         *)
(* cluster : the CoreCluster instance last worked on (NoneVal before any)  *)
(* last    : the last constructor / pdf / attribute call: its arguments,   *)
(*           the exception it raised (NoExc if none) and what it returned  *)
(* calls   : the create_random_state calls made so far, with outcomes      *)
(* ngen    : how many RandomState objects create_random_state has built    *)
VARIABLES core, cluster, last, calls, ngen

vars == <<core, cluster, last, calls, ngen>>

(* ----------------------------- bounds ---------------------------------- *)
MaxDim == 2
MaxLen == 2
MaxSeed == 1
MaxCalls == 3
MaxRefs == 2

(* ------------------------- Python plumbing ----------------------------- *)
NoneVal == [type |-> "NoneType"]

NoExc == [type |-> "None", msg |-> ""]

Exc(t, m) == [type |-> t, msg |-> m]

LastOf(s) == s[Len(s)]

SeqsUpTo(S, n) == UNION {[1..k -> S] : k \in 0..n}

(* numpy.isscalar: true of Python numbers and strings and of numpy scalar  *)
(* types, false of every ndarray (0-d included), list, None and object.    *)
np_isscalar(v) == v.type \in {"int", "float", "str", "numpy.int64", "numpy.str_"}

(* numpy.asarray on a number or a (nested) list of numbers: an ndarray of  *)
(* the same shape; a bare number becomes a 0-d ndarray.                    *)
np_asarray(v) == [type |-> "ndarray", shape |-> v.shape]

(* isinstance(obj, classinfo) for a tuple classinfo, scanned left to right:*)
(* an entry that is the object's type answers True, an entry that is not a *)
(* class at all makes isinstance raise TypeError.                          *)
RECURSIVE isinstance(_, _)
isinstance(obj, classinfo) ==
    IF classinfo = <<>> THEN "False"
    ELSE IF ~ Head(classinfo).istype THEN "TypeError"
    ELSE IF obj.type = Head(classinfo).name THEN "True"
    ELSE isinstance(obj, Tail(classinfo))

(* ------------------------------ Core ----------------------------------- *)
(* The tuple (None, CoreCluster) of Core._validate_init: None is an object,*)
(* not a class.                                                            *)
ClusterClassinfo ==
    << [istype |-> FALSE, name |-> "None"],
       [istype |-> TRUE, name |-> "CoreCluster"] >>

(* What evaluating v.shape[-1] raises: only an ndarray has .shape, and the  *)
(* shape of a 0-d ndarray is the empty tuple.  NoExc when it has a value.  *)
shape_last(v) ==
    IF v.type # "ndarray"
    THEN Exc("AttributeError", "'" \o v.type \o "' object has no attribute 'shape'")
    ELSE IF Len(v.shape) = 0 THEN Exc("IndexError", "tuple index out of range")
    ELSE NoExc

Core_validate_init(self) ==
    IF np_isscalar(self.mu)
    THEN [exc |-> Exc("ValueError", "Invalid argument provided for mu. Must be a vector"),
          self |-> self]
    ELSE IF np_isscalar(self.sigma)
    THEN [exc |-> Exc("ValueError", "Invalid argument provided for sigma. Must be a vector"),
          self |-> self]
    ELSE IF np_isscalar(self.delta)
    THEN [exc |-> Exc("ValueError", "Invalid argument provided for delta. Must be a vector"),
          self |-> self]
    ELSE LET inst == isinstance(self.cluster, ClusterClassinfo) IN
         IF inst = "TypeError"
         THEN [exc |-> Exc("TypeError", "isinstance() arg 2 must be a type, a tuple of types, or a union"),
               self |-> self]
         ELSE IF inst = "False"
         THEN [exc |-> Exc("ValueError", "Invalid argument provided for cluster. Must be None or CoreCluster. Found " \o self.cluster.type),
               self |-> self]
         ELSE LET t == shape_last(self.mu) IN
         IF t # NoExc THEN [exc |-> t, self |-> self]
         ELSE LET u == shape_last(self.sigma) IN
         IF u # NoExc THEN [exc |-> u, self |-> self]
         ELSE IF LastOf(self.mu.shape) = LastOf(self.sigma.shape)
         THEN [exc |-> NoExc, self |-> [self EXCEPT !.dim = LastOf(self.mu.shape)]]
         ELSE [exc |-> Exc("ValueError", "Mismatch in dimensions between mu and sigma"),
               self |-> self]

Core_init(mu, sigma, delta, clust) ==
    Core_validate_init([type |-> "Core", dim |-> -1, mu |-> np_asarray(mu),
                        sigma |-> np_asarray(sigma), delta |-> delta,
                        cluster |-> clust])

(* format_array has no body: it returns None whatever it is given.         *)
format_array(array) == NoneVal

(* scipy.stats.multivariate_normal.pdf, by its contract: one density per   *)
(* row of a 2-D x, a single density for one point.                         *)
mvn_pdf(x, mean, cov) ==
    IF x.type = "ndarray" /\ Len(x.shape) = 2
    THEN [type |-> "ndarray", shape |-> <<x.shape[1]>>]
    ELSE [type |-> "float", shape |-> <<>>]

Core_pdf(self, data) ==
    LET d == format_array(data)
        v == Core_validate_init(self)
    IN IF v.exc # NoExc
       THEN [exc |-> v.exc, self |-> v.self, ret |-> NoneVal]
       ELSE [exc |-> NoExc, self |-> v.self, ret |-> mvn_pdf(d, v.self.mu, v.self.sigma)]

(* ---------------------------- CoreCluster ------------------------------ *)
ObjectTypes == {"Core", "CoreCluster", "NoneType"}

(* dtype numpy.asarray picks for a flat list of references and scalars.    *)
np_dtype(elts) ==
    IF Len(elts) = 0 THEN "float64"
    ELSE IF \E i \in 1..Len(elts) : elts[i].type \in ObjectTypes THEN "object"
    ELSE IF \E i \in 1..Len(elts) : elts[i].type = "str" THEN "str_"
    ELSE "int64"

(* numpy.asarray on a flat list (1-d) or on a single object (0-d).         *)
np_asarray_refs(v) ==
    [type |-> "ndarray", rank |-> (IF v.type = "list" THEN 1 ELSE 0),
     dtype |-> np_dtype(v.elts), elts |-> v.elts]

(* type(item) for the items an iteration over a 1-d array yields.          *)
item_type(arr, i) ==
    IF arr.dtype = "object" THEN arr.elts[i].type
    ELSE IF arr.dtype = "str_" THEN "numpy.str_"
    ELSE IF arr.dtype = "int64" THEN "numpy.int64"
    ELSE "numpy.float64"

item_types(arr) == {item_type(arr, i) : i \in 1..Len(arr.elts)}

(* len(types) != 1 or cls not in types                                     *)
BadTypesNoLen(types, cls) == cls \notin types

BadTypes(types, cls) == Cardinality(types) # 1 \/ cls \notin types

(* One of the three blocks of CoreCluster._validate_init, on attribute     *)
(* `attr` of self; "pass" when the block raises nothing.                   *)
Cluster_check(self, attr, cls, msg) ==
    IF attr \notin DOMAIN self
    THEN Exc("AttributeError", "'CoreCluster' object has no attribute '" \o attr \o "'")
    ELSE IF np_isscalar(self[attr]) THEN Exc("ValueError", msg)
    ELSE IF self[attr].rank = 0 THEN Exc("TypeError", "iteration over a 0-d array")
    ELSE IF BadTypes(item_types(self[attr]), cls) THEN Exc("ValueError", msg)
    ELSE NoExc

CoresMsg == "Invalid argument provided for cores. Must be a list of Cores"
ParentsMsg == "Invalid argument provided for parents. Must be a list of CoreClusters"
ChildrenMsg == "Invalid argument provided for children. Must be a list of CoreClusters"

Cluster_validate_init(self) ==
    LET c1 == Cluster_check(self, "cores", "Core", CoresMsg)
        c2 == Cluster_check(self, "parents", "CoreCluster", ParentsMsg)
        c3 == Cluster_check(self, "children", "CoreCluster", ChildrenMsg)
    IN IF c1 # NoExc THEN c1
       ELSE IF c2 # NoExc THEN c2
       ELSE c3

Cluster_init(cores, parents, children) ==
    LET self == [type |-> "CoreCluster", cores |-> np_asarray_refs(cores),
                 parent |-> np_asarray_refs(parents),
                 children |-> np_asarray_refs(children)]
    IN [exc |-> Cluster_validate_init(self), self |-> self]

(* ------------------------------ _utils --------------------------------- *)
(* The names bound in the namespace of _utils.py: it imports nothing.      *)
UtilsGlobals == {"format_array", "create_random_state"}

NameErr(n) == Exc("NameError", "name '" \o n \o "' is not defined")

(* The process-wide generator numpy keeps as numpy.random.mtrand._rand.    *)
SharedRand == [type |-> "RandomState", id |-> 0]

create_random_state(seed, n) ==
    IF seed.type = "NoneType"
    THEN IF "np" \notin UtilsGlobals
         THEN [exc |-> NameErr("np"), ret |-> NoneVal, ngen |-> n]
         ELSE [exc |-> NoExc, ret |-> SharedRand, ngen |-> n]
    ELSE IF "np" \notin UtilsGlobals
    THEN [exc |-> NameErr("np"), ret |-> NoneVal, ngen |-> n]
    ELSE IF seed.type \in {"int", "numpy.int64"}
    THEN [exc |-> NoExc, ret |-> [type |-> "RandomState", id |-> n + 1], ngen |-> n + 1]
    ELSE IF seed.type = "RandomState"
    THEN [exc |-> NoExc, ret |-> seed, ngen |-> n]
    ELSE [exc |-> Exc("ValueError", "Seed must be None, an int, or a Random State"),
          ret |-> NoneVal, ngen |-> n]

(* ------------------------------ inputs --------------------------------- *)
(* mu is a vector (n,), sigma a vector (n,) or a matrix (n, n); a batch of *)
(* query points is (k, n).                                                 *)
Shapes ==
    {<<>>} \cup {<<n>> : n \in 1..MaxDim} \cup {<<n, n>> : n \in 1..MaxDim}

DataShapes ==
    {<<>>} \cup {<<n>> : n \in 1..MaxDim}
           \cup {<<k, n>> : k \in 1..MaxDim, n \in 1..MaxDim}

Number == [type |-> "int", shape |-> <<>>]

ArrayArgs == {Number} \cup {[type |-> "list", shape |-> s] : s \in Shapes \ {<<>>}}

DataArgs == {Number} \cup {[type |-> "list", shape |-> s] : s \in DataShapes \ {<<>>}}

DefaultMu == [type |-> "list", shape |-> <<1>>]
DefaultSigma == [type |-> "list", shape |-> <<1>>]
DefaultDelta == Number

DeltaArgs == {DefaultDelta, [type |-> "list", shape |-> <<1>>]}

ClusterRef == [type |-> "CoreCluster", id |-> 1]

ClusterArgs == {NoneVal, ClusterRef, [type |-> "str"]}

NdArrays == {[type |-> "ndarray", shape |-> s] : s \in Shapes}

(* The values a caller assigns to an attribute of a Core.                  *)
AttrValues(attr) ==
    IF attr \in {"mu", "sigma"} THEN ArrayArgs \cup NdArrays
    ELSE IF attr = "delta" THEN DeltaArgs
    ELSE IF attr = "cluster" THEN ClusterArgs
    ELSE -1..MaxDim

Elems ==
    {[type |-> "Core", id |-> i] : i \in 1..MaxRefs}
        \cup {[type |-> "int", id |-> 0], [type |-> "str", id |-> 0],
              [type |-> "NoneType", id |-> 0]}

RefListArgs == {[type |-> "list", elts |-> s] : s \in SeqsUpTo(Elems, MaxLen)}

CoresArgs == RefListArgs \cup {[type |-> e.type, elts |-> <<e>>] : e \in Elems}

RelArgs ==
    {[type |-> "list", elts |-> s] : s \in {<<>>, <<ClusterRef>>, <<[type |-> "int", id |-> 0]>>}}

Seeds ==
    {NoneVal, SharedRand, [type |-> "str"]}
        \cup {[type |-> "int", val |-> n] : n \in 0..MaxSeed}

(* ------------------------------ actions -------------------------------- *)
Init ==
    /\ core = NoneVal
    /\ cluster = NoneVal
    /\ last = [op |-> "none", args |-> [none |-> TRUE], exc |-> NoExc, ret |-> NoneVal]
    /\ calls = <<>>
    /\ ngen = 0

(* Core(mu, sigma, delta, cluster).  `core` holds the instance __init__    *)
(* worked on: its fields are assigned before validation runs, and it       *)
(* outlives a raising __init__ through the traceback's frame.              *)
CoreNew ==
    \E mu \in ArrayArgs, sigma \in ArrayArgs, delta \in DeltaArgs, cl \in ClusterArgs :
        LET r == Core_init(mu, sigma, delta, cl) IN
        /\ core' = r.self
        /\ last' = [op |-> "Core", exc |-> r.exc,
                    args |-> [mu |-> mu, sigma |-> sigma, delta |-> delta, cluster |-> cl],
                    ret |-> (IF r.exc = NoExc THEN r.self ELSE NoneVal)]
        /\ UNCHANGED <<cluster, calls, ngen>>

(* A caller assigns a public attribute of the instance.  There is no      *)
(* setter: the attribute holds the assigned value itself, unconverted.     *)
CoreSetAttr ==
    /\ core # NoneVal
    /\ \E attr \in {"mu", "sigma", "delta", "cluster", "dim"} :
         \E v \in AttrValues(attr) :
            /\ core' = [core EXCEPT ![attr] = v]
            /\ last' = [op |-> "setattr", exc |-> NoExc,
                        args |-> [attr |-> attr, value |-> v], ret |-> NoneVal]
    /\ UNCHANGED <<cluster, calls, ngen>>

CorePdf ==
    /\ core # NoneVal
    /\ \E data \in DataArgs :
        LET r == Core_pdf(core, data) IN
        /\ core' = r.self
        /\ last' = [op |-> "pdf", exc |-> r.exc, args |-> [data |-> data], ret |-> r.ret]
    /\ UNCHANGED <<cluster, calls, ngen>>

ClusterNew ==
    \E cores \in CoresArgs, parents \in RelArgs, children \in RelArgs :
        LET r == Cluster_init(cores, parents, children) IN
        /\ cluster' = r.self
        /\ last' = [op |-> "CoreCluster", exc |-> r.exc,
                    args |-> [cores |-> cores, parents |-> parents, children |-> children],
                    ret |-> (IF r.exc = NoExc THEN r.self ELSE NoneVal)]
        /\ UNCHANGED <<core, calls, ngen>>

CreateRandomState ==
    /\ Len(calls) < MaxCalls
    /\ \E seed \in Seeds :
        LET r == create_random_state(seed, ngen) IN
        /\ calls' = Append(calls, [seed |-> seed, exc |-> r.exc, ret |-> r.ret])
        /\ ngen' = r.ngen
    /\ UNCHANGED <<core, cluster, last>>

(* Core, CoreCluster and create_random_state share no state: each is also  *)
(* given a specification of its own, the other variables left at Init.     *)
NextCore == CoreNew \/ CoreSetAttr \/ CorePdf

NextCluster == ClusterNew

NextUtils == CreateRandomState

Next == CoreNew \/ CoreSetAttr \/ CorePdf \/ ClusterNew \/ CreateRandomState

Spec == Init /\ [][Next]_vars

SpecCore == Init /\ [][NextCore]_vars

SpecCluster == Init /\ [][NextCluster]_vars

SpecUtils == Init /\ [][NextUtils]_vars

(* ------------------------------ claims --------------------------------- *)
IsVector(v) == Len(v.shape) > 0

MuSigmaArgsAgree ==
    /\ last.op = "Core"
    /\ IsVector(last.args.mu) /\ IsVector(last.args.sigma)
    /\ LastOf(last.args.mu.shape) = LastOf(last.args.sigma.shape)

MuSigmaArgsDiffer ==
    /\ last.op = "Core"
    /\ IsVector(last.args.mu) /\ IsVector(last.args.sigma)
    /\ LastOf(last.args.mu.shape) # LastOf(last.args.sigma.shape)

(* C1: a Core built from a mean and a covariance of equal trailing         *)
(* dimension, the weight and the cluster valid or defaulted, is returned   *)
(* and its dim is that trailing length.                                    *)
C1_EqualDimsConstruct ==
    (MuSigmaArgsAgree /\ last.args.cluster \in {NoneVal, ClusterRef})
        => (last.exc = NoExc /\ last.ret.dim = LastOf(last.args.mu.shape))

(* C2: Core() with no arguments is returned as the 1-dimensional standard  *)
(* Gaussian: mean of shape (1,), variance of shape (1,), weight 1, no      *)
(* cluster, dim 1.                                                         *)
C2_DefaultCore ==
    (/\ last.op = "Core"
     /\ last.args = [mu |-> DefaultMu, sigma |-> DefaultSigma,
                     delta |-> DefaultDelta, cluster |-> NoneVal])
        => (/\ last.exc = NoExc
            /\ last.ret.dim = 1
            /\ last.ret.mu.shape = <<1>>
            /\ last.ret.sigma.shape = <<1>>
            /\ last.ret.delta = DefaultDelta
            /\ last.ret.cluster = NoneVal)

(* C3: a Core built from a mean and a covariance of different trailing     *)
(* dimension raises the ValueError "Mismatch in dimensions between mu and  *)
(* sigma" and no other error.                                              *)
C3_MismatchRaises ==
    MuSigmaArgsDiffer
        => last.exc = Exc("ValueError", "Mismatch in dimensions between mu and sigma")

(* C4: a bare scalar given as the mean, or as the covariance, makes the    *)
(* constructor raise that argument's "Must be a vector" ValueError.        *)
C4_ScalarRaises ==
    last.op = "Core" =>
        /\ ~ IsVector(last.args.mu)
              => last.exc = Exc("ValueError", "Invalid argument provided for mu. Must be a vector")
        /\ (IsVector(last.args.mu) /\ ~ IsVector(last.args.sigma))
              => last.exc = Exc("ValueError", "Invalid argument provided for sigma. Must be a vector")

AllCores(v) ==
    /\ v.type = "list"
    /\ Len(v.elts) > 0
    /\ \A i \in 1..Len(v.elts) : v.elts[i].type = "Core"

MixedCores(v) ==
    /\ v.type = "list"
    /\ \E i \in 1..Len(v.elts) : v.elts[i].type = "Core"
    /\ \E i \in 1..Len(v.elts) : v.elts[i].type # "Core"

ValidRel(v) == v.elts = <<ClusterRef>>

(* C5: a CoreCluster built from a non-empty list of Cores, with valid      *)
(* parents and children, is returned and every given Core reference is in  *)
(* its cores member.                                                       *)
C5_AllCoresConstruct ==
    (/\ last.op = "CoreCluster"
     /\ AllCores(last.args.cores)
     /\ ValidRel(last.args.parents) /\ ValidRel(last.args.children))
        => (/\ last.exc = NoExc
            /\ \A i \in 1..Len(last.args.cores.elts) :
                  \E j \in 1..Len(last.ret.cores.elts) :
                      last.ret.cores.elts[j] = last.args.cores.elts[i])

(* C6: CoreCluster() with its default, empty cores, parents and children   *)
(* is returned.                                                            *)
C6_DefaultCluster ==
    (/\ last.op = "CoreCluster"
     /\ last.args.cores = [type |-> "list", elts |-> <<>>]
     /\ last.args.parents = [type |-> "list", elts |-> <<>>]
     /\ last.args.children = [type |-> "list", elts |-> <<>>])
        => last.exc = NoExc

(* C7: a CoreCluster built from a list holding at least one Core and at    *)
(* least one non-Core raises the ValueError "Invalid argument provided for *)
(* cores. Must be a list of Cores" and returns no cluster.                 *)
C7_MixedCoresRaise ==
    (last.op = "CoreCluster" /\ MixedCores(last.args.cores))
        => (last.exc = Exc("ValueError", CoresMsg) /\ last.ret = NoneVal)

C7_Witness ==
    /\ last.op = "CoreCluster"
    /\ MixedCores(last.args.cores)
    /\ Len(last.args.cores.elts) = 2
    /\ ValidRel(last.args.parents)
    /\ last.exc = Exc("ValueError", CoresMsg)

(* C8: in any sequence of calls, create_random_state(None) returns the one *)
(* process-wide generator each time, and each create_random_state(n) with  *)
(* an integer n returns a fresh generator, distinct from the shared one    *)
(* and from every earlier result.                                          *)
C8_RandomStates ==
    \A i \in 1..Len(calls) :
        /\ calls[i].seed.type = "NoneType"
              => (calls[i].exc = NoExc /\ calls[i].ret = SharedRand)
        /\ calls[i].seed.type = "int"
              => (/\ calls[i].exc = NoExc
                  /\ calls[i].ret.type = "RandomState"
                  /\ calls[i].ret # SharedRand
                  /\ \A j \in 1..(i - 1) : calls[j].ret # calls[i].ret)

WellFormedData(d) == Len(d.shape) = 2

(* C9: every pdf call validates the component before any density is        *)
(* computed: when mu and sigma have been set to different trailing         *)
(* dimensions, pdf on well-formed data raises the dimension-mismatch       *)
(* ValueError and returns nothing; when they agree and a density is        *)
(* returned, dim is the mean's trailing length.                            *)
C9_PdfRevalidates ==
    (/\ last.op = "pdf"
     /\ WellFormedData(last.args.data)
     /\ IsVector(core.mu) /\ IsVector(core.sigma))
        => /\ LastOf(core.mu.shape) # LastOf(core.sigma.shape)
                => (/\ last.exc = Exc("ValueError", "Mismatch in dimensions between mu and sigma")
                    /\ last.ret = NoneVal)
           /\ (LastOf(core.mu.shape) = LastOf(core.sigma.shape) /\ last.exc = NoExc)
                => core.dim = LastOf(core.mu.shape)

(* C10: pdf of a valid Core of dimension n on a batch of k points of n     *)
(* features returns exactly k densities.                                   *)
C10_PdfOnePerRow ==
    (/\ last.op = "pdf"
     /\ IsVector(core.mu) /\ IsVector(core.sigma)
     /\ LastOf(core.mu.shape) = LastOf(core.sigma.shape)
     /\ core.cluster \in {NoneVal, ClusterRef}
     /\ WellFormedData(last.args.data)
     /\ last.args.data.shape[2] = LastOf(core.mu.shape))
        => (/\ last.exc = NoExc
            /\ last.ret.type = "ndarray"
            /\ last.ret.shape = <<last.args.data.shape[1]>>)

====
